---- MODULE Spec2Model ----
(***************************************************************************)
(* The nft contract (src/src/nft.cpp, class declared in                    *)
(* src/unnamed/part_000) as a state machine.                               *)
(*                                                                         *)
(* State: the three multi_index tables (collections, assets, balances per  *)
(* owner scope), the trace of executed log actions (collog, assetlog,      *)
(* transferlog), and the receipt of the pushed action the client is        *)
(* awaiting (scripts/actions.js pushes one action per transaction and      *)
(* awaits its result before the next).                                     *)
(*                                                                         *)
(* Every pushed action is one transaction: a failed check(), require_auth  *)
(* or table lookup aborts it and nothing it or its inline actions wrote is *)
(* kept.  Inline actions sent with action(...).send() run after the        *)
(* sending handler returns, in the order sent, inside the same             *)
(* transaction.                                                            *)
(*                                                                         *)
(* require_recipient only notifies other accounts' contracts and writes    *)
(* nothing in this contract's tables; it is left out.  The host is taken   *)
(* to run the log actions the contract sends under its own authority.      *)
(*                                                                         *)
(* uint64_t / int64_t are scaled to W bits: unsigned arithmetic is taken   *)
(* modulo 2^W; a signed addition that leaves the signed range is undefined *)
(* behaviour, with the outcomes OverflowOutcomes.                          *)
(* Strings (data, memo) are represented by their size in bytes, the only   *)
(* thing the contract inspects.                                            *)
(***************************************************************************)
EXTENDS Integers, Sequences, FiniteSets, TLC

VARIABLES collections, assets, balances, log, receipt

vars == <<collections, assets, balances, log, receipt>>

----------------------------------------------------------------------------
(* Bounds of the model *)

\* width in bits standing for the 64 of uint64_t / int64_t
W == 3
\* no action is pushed once the log holds this many entries
MaxLog == 5
\* rows the collections table may hold
MaxCols == 2
\* rows the assets table may hold
MaxAssets == 2

(* Program constants *)
MaxRoyalty == 1000
MaxDataSize == 65535
MaxMemoSize == 256
CreateMintMemoSize == 15

----------------------------------------------------------------------------
(* Machine integers *)

UMod == 2 ^ W
UMax == UMod - 1
SMax == (UMod \div 2) - 1
SMin == 0 - (UMod \div 2)

\* conversion to uint64_t: value modulo 2^W
ToU(x) == x % UMod

\* conversion to int64_t: two's complement reading of the low W bits
ToS(x) == IF ToU(x) > SMax THEN ToU(x) - UMod ELSE ToU(x)

----------------------------------------------------------------------------
(* Names *)

Self == "nft"
NullName == ""
Accounts == {"nft", "alice", "bob"}
Names == Accounts \cup {"ghost"}

\* is_account that takes every name to be an existing account
is_account_any(n) == TRUE

is_account(n) == n \in Accounts

\* has_auth / require_auth against the authorizations the action carries
has_auth(auth, n) == n \in auth

----------------------------------------------------------------------------
(* multi_index helpers: a table is a function from primary key to row *)

EmptyTable == <<>>

SetMax(S) == CHOOSE m \in S : \A k \in S : k <= m

\* available_primary_key without the step past the largest key in use
available_primary_key_reissued(t) ==
    IF DOMAIN t = {} THEN 0 ELSE SetMax(DOMAIN t)

available_primary_key(t) ==
    IF DOMAIN t = {} THEN 0 ELSE SetMax(DOMAIN t) + 1

\* emplace into a table emptied first
emplace_alone(t, key, row) == (key :> row)

emplace(t, key, row) == (key :> row) @@ t

erase(t, key) == [k \in (DOMAIN t) \ {key} |-> t[k]]

\* the tables and the log as one value handlers transform
State == [collections |-> collections, assets |-> assets,
          balances |-> balances, log |-> log]

Fail(msg, st) == [ok |-> FALSE, err |-> msg, st |-> st]
Done(st) == [ok |-> TRUE, err |-> "ok", st |-> st]

----------------------------------------------------------------------------
(* The log actions: each requires the contract's own authority, which the  *)
(* inline sender supplies (self_perm), and leaves a trace entry.           *)

collog(collection_id, author, royalty, data) ==
    [type |-> "collog", collection_id |-> collection_id, author |-> author,
     royalty |-> royalty, data |-> data]

assetlog(asset_id, collection_id, max_supply, data) ==
    [type |-> "assetlog", asset_id |-> asset_id,
     collection_id |-> collection_id, max_supply |-> max_supply,
     data |-> data]

\* transferlog with the two resulting balances taken in the other order
transferlog_swapped(from, to, asset_id, amount, from_balance, to_balance, memo) ==
    [type |-> "transferlog", asset_id |-> asset_id, from |-> from, to |-> to,
     amount |-> amount, from_balance |-> to_balance,
     to_balance |-> from_balance, memo |-> memo]

transferlog(from, to, asset_id, amount, from_balance, to_balance, memo) ==
    [type |-> "transferlog", from |-> from, to |-> to,
     asset_id |-> asset_id, amount |-> amount,
     from_balance |-> from_balance, to_balance |-> to_balance,
     memo |-> memo]

----------------------------------------------------------------------------
(* Balance rows.  balances[owner] is the table in scope owner.value; a row *)
(* carries the account charged for its storage.                            *)

\* what a signed addition leaving the int64_t range may do
OverflowOutcomes == {"wrap", "trap"}

\* covers with the comparison left out
covers_unchecked(row, amount) == TRUE

\* check(from.balance >= amount, "overdrawn balance")
covers(row, amount) == row.balance >= amount

\* sub_balance that stores the remaining quantity even when it is 0
sub_balance_no_erase(bals, owner, asset_id, amount) ==
    IF asset_id \notin DOMAIN bals[owner]
    THEN [ok |-> FALSE, err |-> "no balance object found",
          bals |-> bals, balance |-> 0]
    ELSE LET from == bals[owner][asset_id] IN
         IF ~covers(from, amount)
         THEN [ok |-> FALSE, err |-> "overdrawn balance",
               bals |-> bals, balance |-> 0]
         ELSE [ok |-> TRUE, err |-> "ok",
               bals |-> [bals EXCEPT ![owner][asset_id] =
                            [asset_id |-> asset_id,
                             balance |-> ToS(from.balance - amount),
                             payer |-> owner]],
               balance |-> ToS(from.balance - amount)]

sub_balance(bals, owner, asset_id, amount) ==
    IF asset_id \notin DOMAIN bals[owner]
    THEN [ok |-> FALSE, err |-> "no balance object found",
          bals |-> bals, balance |-> 0]
    ELSE LET from == bals[owner][asset_id] IN
         IF ~covers(from, amount)
         THEN [ok |-> FALSE, err |-> "overdrawn balance",
               bals |-> bals, balance |-> 0]
         ELSE IF from.balance = amount
         THEN [ok |-> TRUE, err |-> "ok",
               bals |-> [bals EXCEPT ![owner] = erase(@, asset_id)],
               balance |-> 0]
         ELSE [ok |-> TRUE, err |-> "ok",
               bals |-> [bals EXCEPT ![owner][asset_id] =
                            [asset_id |-> asset_id,
                             balance |-> ToS(from.balance - amount),
                             payer |-> owner]],
               balance |-> ToS(from.balance - amount)]

\* add_balance that modifies an existing row under ram_payer instead of
\* same_payer
add_balance_repaid(bals, owner, asset_id, amount, ram_payer, ovf) ==
    IF asset_id \notin DOMAIN bals[owner]
    THEN [ok |-> TRUE, err |-> "ok",
          bals |-> [bals EXCEPT ![owner] =
                       emplace(@, asset_id,
                               [asset_id |-> asset_id, balance |-> amount,
                                payer |-> ram_payer])],
          balance |-> amount]
    ELSE LET to == bals[owner][asset_id]
             sum == to.balance + amount IN
         IF (sum > SMax \/ sum < SMin) /\ ovf = "trap"
         THEN [ok |-> FALSE, err |-> "signed overflow trap",
               bals |-> bals, balance |-> 0]
         ELSE [ok |-> TRUE, err |-> "ok",
               bals |-> [bals EXCEPT ![owner][asset_id].balance = ToS(sum),
                                     ![owner][asset_id].payer = ram_payer],
               balance |-> ToS(sum)]

add_balance(bals, owner, asset_id, amount, ram_payer, ovf) ==
    IF asset_id \notin DOMAIN bals[owner]
    THEN [ok |-> TRUE, err |-> "ok",
          bals |-> [bals EXCEPT ![owner] =
                       emplace(@, asset_id,
                               [asset_id |-> asset_id, balance |-> amount,
                                payer |-> ram_payer])],
          balance |-> amount]
    ELSE LET to == bals[owner][asset_id]
             sum == to.balance + amount IN
         IF (sum > SMax \/ sum < SMin) /\ ovf = "trap"
         THEN [ok |-> FALSE, err |-> "signed overflow trap",
               bals |-> bals, balance |-> 0]
         ELSE [ok |-> TRUE, err |-> "ok",
               bals |-> [bals EXCEPT ![owner][asset_id].balance = ToS(sum)],
               balance |-> ToS(sum)]

----------------------------------------------------------------------------
(* The handlers.  Each takes the state it runs on and the authorizations   *)
(* the action carries, and yields [ok, err, st]: whether the transaction   *)
(* survives the handler and the inline actions it sent, the message of the *)
(* first failed check, and the state reached.                              *)

\* within_max_supply with the comparison left out
within_max_supply_unchecked(ast, amount) == TRUE

\* check(ast_it->max_supply >= ast_it->supply + amount, ...): the sum is
\* formed in uint64_t
within_max_supply(ast, amount) == ast.max_supply >= ToU(ast.supply + amount)

\* transfer with the self-transfer check made after require_auth(from)
transfer_auth_first(st, auth, from, to, asset_id, amount, memo, ovf) ==
    IF ~has_auth(auth, from) THEN Fail("missing required authority", st)
    ELSE IF from = to THEN Fail("cannot transfer to self", st)
    ELSE IF ~is_account(to) THEN Fail("to account does not exist", st)
    ELSE IF asset_id \notin DOMAIN st.assets
         THEN Fail("unable to find asset", st)
    ELSE IF ~(amount > 0) THEN Fail("must transfer positive amount", st)
    ELSE IF ~(memo <= MaxMemoSize)
         THEN Fail("memo has more than 256 bytes", st)
    ELSE LET payer == IF has_auth(auth, to) THEN to ELSE from
             sub == sub_balance(st.balances, from, asset_id, amount) IN
         IF ~sub.ok THEN Fail(sub.err, st)
         ELSE LET add == add_balance(sub.bals, to, asset_id, amount,
                                     payer, ovf) IN
              IF ~add.ok
              THEN Fail(add.err, [st EXCEPT !.balances = sub.bals])
              ELSE Done([st EXCEPT
                     !.balances = add.bals,
                     !.log = Append(@, transferlog(from, to, asset_id,
                                 amount, sub.balance, add.balance, memo))])

transfer(st, auth, from, to, asset_id, amount, memo, ovf) ==
    IF from = to THEN Fail("cannot transfer to self", st)
    ELSE IF ~has_auth(auth, from) THEN Fail("missing required authority", st)
    ELSE IF ~is_account(to) THEN Fail("to account does not exist", st)
    ELSE IF asset_id \notin DOMAIN st.assets
         THEN Fail("unable to find asset", st)
    ELSE IF ~(amount > 0) THEN Fail("must transfer positive amount", st)
    ELSE IF ~(memo <= MaxMemoSize)
         THEN Fail("memo has more than 256 bytes", st)
    ELSE LET payer == IF has_auth(auth, to) THEN to ELSE from
             sub == sub_balance(st.balances, from, asset_id, amount) IN
         IF ~sub.ok THEN Fail(sub.err, st)
         ELSE LET add == add_balance(sub.bals, to, asset_id, amount,
                                     payer, ovf) IN
              IF ~add.ok
              THEN Fail(add.err, [st EXCEPT !.balances = sub.bals])
              ELSE Done([st EXCEPT
                     !.balances = add.bals,
                     !.log = Append(@, transferlog(from, to, asset_id,
                                 amount, sub.balance, add.balance, memo))])

mint(st, auth, to, asset_id, amount, memo, ovf, codePerm) ==
    IF ~(memo <= MaxMemoSize) THEN Fail("memo has more than 256 bytes", st)
    ELSE IF asset_id \notin DOMAIN st.assets
         THEN Fail("unable to find asset", st)
    ELSE LET ast == st.assets[asset_id] IN
         IF ast.collection_id \notin DOMAIN st.collections
         THEN Fail("unable to find collection", st)
    ELSE LET author == st.collections[ast.collection_id].author IN
         IF ~has_auth(auth, author)
         THEN Fail("missing required authority", st)
    ELSE IF ~(amount > 0) THEN Fail("must issue positive amount", st)
    ELSE IF ~within_max_supply(ast, amount)
         THEN Fail("amount exceeds available supply", st)
    ELSE LET add == add_balance(st.balances, to, asset_id, amount,
                                author, ovf) IN
         IF ~add.ok
         THEN Fail(add.err, [st EXCEPT
                       !.assets[asset_id].supply = ToU(@ + amount)])
    ELSE LET st1 == [st EXCEPT
                 !.assets[asset_id].supply = ToU(@ + amount),
                 !.balances = add.bals,
                 !.log = Append(@, transferlog(NullName, author, asset_id,
                             amount, 0, add.balance, memo))] IN
         IF to = author THEN Done(st1)
         \* the inline transfer runs under author@active, which the host
         \* grants to the contract's code only if the author delegated it
         ELSE IF ~(author = Self \/ codePerm)
              THEN Fail("inline action not authorized", st1)
         ELSE transfer(st1, {author}, author, to, asset_id, amount, memo,
                       ovf)

burn(st, auth, asset_id, amount, memo) ==
    IF ~(memo <= MaxMemoSize) THEN Fail("memo has more than 256 bytes", st)
    ELSE IF ~(amount > 0) THEN Fail("must retire positive amount", st)
    ELSE IF asset_id \notin DOMAIN st.assets
         THEN Fail("unable to find asset", st)
    ELSE LET ast == st.assets[asset_id] IN
         IF ~(ast.supply >= amount) THEN Fail("insufficient amount", st)
    ELSE IF ast.collection_id \notin DOMAIN st.collections
         THEN Fail("unable to find collection", st)
    ELSE LET author == st.collections[ast.collection_id].author IN
         IF ~has_auth(auth, author)
         THEN Fail("missing required authority", st)
    ELSE LET sub == sub_balance(st.balances, author, asset_id, amount) IN
         IF ~sub.ok
         THEN Fail(sub.err, [st EXCEPT
                       !.assets[asset_id].supply = ToU(@ - amount)])
         ELSE Done([st EXCEPT
                !.assets[asset_id].supply = ToU(@ - amount),
                !.balances = sub.bals,
                !.log = Append(@, transferlog(author, NullName, asset_id,
                            amount, sub.balance, 0, memo))])

createcol(st, auth, author, royalty, data) ==
    IF ~has_auth(auth, Self) THEN Fail("missing required authority", st)
    ELSE IF ~(royalty >= 0) THEN Fail("royalty must be positive", st)
    ELSE IF ~(royalty <= MaxRoyalty)
         THEN Fail("royalty must be less than 1000", st)
    ELSE IF ~(data <= MaxDataSize)
         THEN Fail("data has more than 65535 bytes", st)
    ELSE IF ~is_account(author)
         THEN Fail("author account does not exist", st)
    ELSE LET apk == available_primary_key(st.collections)
             collection_id == IF apk = 0 THEN 1 ELSE apk IN
         Done([st EXCEPT
            !.collections = emplace(@, collection_id,
                [collection_id |-> collection_id, author |-> author,
                 royalty |-> royalty, data |-> data]),
            !.log = Append(@, collog(collection_id, author, royalty, data))])

createasset(st, auth, collection_id, supply, max_supply, data, ovf) ==
    IF ~(max_supply > 0) THEN Fail("max-supply must be positive", st)
    ELSE IF ~(data <= MaxDataSize)
         THEN Fail("data has more than 65535 bytes", st)
    ELSE IF collection_id \notin DOMAIN st.collections
         THEN Fail("unable to find collection", st)
    ELSE LET author == st.collections[collection_id].author IN
         IF ~has_auth(auth, author)
         THEN Fail("missing required authority", st)
    ELSE LET apk == available_primary_key(st.assets)
             asset_id == IF apk = 0 THEN 1 ELSE apk
             st1 == [st EXCEPT
                 !.assets = emplace(@, asset_id,
                     [asset_id |-> asset_id,
                      collection_id |-> collection_id, supply |-> 0,
                      max_supply |-> max_supply, data |-> data]),
                 !.log = Append(@, assetlog(asset_id, collection_id,
                                            max_supply, data))] IN
         \* a direct call of mint with to = author: it sends no inline
         \* transfer, so the host's grant (last argument) plays no part
         IF supply > 0
         THEN mint(st1, auth, author, asset_id, ToS(supply),
                   CreateMintMemoSize, ovf, FALSE)
         ELSE Done(st1)

----------------------------------------------------------------------------
(* Inputs of pushed actions *)

\* authorizations a pushed action may carry
Auths == {{"nft"}, {"alice"}, {"bob"}, {"alice", "bob"}}
Royalties == {MaxRoyalty, MaxRoyalty + 1}
DataSizes == {MaxDataSize, MaxDataSize + 1}
MemoSizes == {MaxMemoSize, MaxMemoSize + 1}
\* int64_t amounts
Amounts == {-1, 1, 2, SMax}
\* uint64_t initial supplies and supply caps
Supplies == {0, 1, SMax, SMax + 1}
MaxSupplies == {0, 2, UMax}
ColIds == 1..MaxCols
AssetIds == 1..MaxAssets

----------------------------------------------------------------------------
(* The state machine *)

Idle == [op |-> "idle", res |-> "ok"]

Init ==
    /\ collections = EmptyTable
    /\ assets = EmptyTable
    /\ balances = [o \in Names |-> EmptyTable]
    /\ log = <<>>
    /\ receipt = Idle

\* Commit that keeps the writes of a failed transaction
Commit_no_rollback(call, r) ==
    /\ collections' = r.st.collections
    /\ assets' = r.st.assets
    /\ balances' = r.st.balances
    /\ log' = r.st.log
    /\ receipt' = call @@ [res |-> r.err]

\* the transaction of one pushed action: its writes are kept only if
\* neither the handler nor any inline action failed; the client gets the
\* outcome
Commit(call, r) ==
    /\ IF r.ok
       THEN /\ collections' = r.st.collections
            /\ assets' = r.st.assets
            /\ balances' = r.st.balances
            /\ log' = r.st.log
       ELSE UNCHANGED <<collections, assets, balances, log>>
    /\ receipt' = call @@ [res |-> r.err]

\* a client may push when no result is awaited and the log has room
CanPush == receipt.op = "idle" /\ Len(log) < MaxLog

CreateCol ==
    /\ CanPush
    /\ Cardinality(DOMAIN collections) < MaxCols
    /\ \E auth \in Auths, author \in Names, royalty \in Royalties,
          data \in DataSizes :
          Commit([op |-> "createcol", auth |-> auth, author |-> author,
                  royalty |-> royalty, data |-> data],
                 createcol(State, auth, author, royalty, data))

CreateAsset ==
    /\ CanPush
    /\ Cardinality(DOMAIN assets) < MaxAssets
    /\ \E auth \in Auths, collection_id \in ColIds, supply \in Supplies,
          max_supply \in MaxSupplies, data \in DataSizes :
          \* the asset is new, so its first credit creates the row and no
          \* addition can overflow: the overflow outcome plays no part
          Commit([op |-> "createasset", auth |-> auth,
                  collection_id |-> collection_id, supply |-> supply,
                  max_supply |-> max_supply, data |-> data],
                 createasset(State, auth, collection_id, supply, max_supply,
                             data, "wrap"))

Mint ==
    /\ CanPush
    /\ \E auth \in Auths, to \in Names, asset_id \in AssetIds,
          amount \in Amounts, memo \in MemoSizes, ovf \in OverflowOutcomes,
          codePerm \in BOOLEAN :
          Commit([op |-> "mint", auth |-> auth, to |-> to,
                  asset_id |-> asset_id, amount |-> amount, memo |-> memo,
                  ovf |-> ovf, codePerm |-> codePerm],
                 mint(State, auth, to, asset_id, amount, memo, ovf,
                      codePerm))

Burn ==
    /\ CanPush
    /\ \E auth \in Auths, asset_id \in AssetIds, amount \in Amounts,
          memo \in MemoSizes :
          Commit([op |-> "burn", auth |-> auth, asset_id |-> asset_id,
                  amount |-> amount, memo |-> memo],
                 burn(State, auth, asset_id, amount, memo))

Transfer ==
    /\ CanPush
    /\ \E auth \in Auths, from \in Names, to \in Names,
          asset_id \in AssetIds, amount \in Amounts, memo \in MemoSizes,
          ovf \in OverflowOutcomes :
          Commit([op |-> "transfer", auth |-> auth, from |-> from,
                  to |-> to, asset_id |-> asset_id, amount |-> amount,
                  memo |-> memo, ovf |-> ovf],
                 transfer(State, auth, from, to, asset_id, amount, memo,
                          ovf))

\* the awaited result reaches the client
Return ==
    /\ receipt.op # "idle"
    /\ receipt' = Idle
    /\ UNCHANGED <<collections, assets, balances, log>>

Next == CreateCol \/ CreateAsset \/ Mint \/ Burn \/ Transfer \/ Return

Spec == Init /\ [][Next]_vars

----------------------------------------------------------------------------
(* Vocabulary of the properties *)

\* quantity of an asset an owner holds: 0 when there is no row
Held(bals, owner, asset_id) ==
    IF asset_id \in DOMAIN bals[owner]
    THEN bals[owner][asset_id].balance ELSE 0

RECURSIVE SumHeld(_, _, _)
SumHeld(bals, owners, asset_id) ==
    IF owners = {} THEN 0
    ELSE LET o == CHOOSE x \in owners : TRUE IN
         Held(bals, o, asset_id) + SumHeld(bals, owners \ {o}, asset_id)

\* all balance rows of an asset, over every scope
TotalHeld(bals, asset_id) == SumHeld(bals, Names, asset_id)

\* this step is the execution of a pushed action op
Pushed(op) == receipt.op = "idle" /\ receipt'.op = op

AuthorOf(asset_id) == collections[assets[asset_id].collection_id].author

\* the preconditions of mint other than the supply cap
MintPreconditions(c) ==
    /\ c.memo <= MaxMemoSize
    /\ c.asset_id \in DOMAIN assets
    /\ assets[c.asset_id].collection_id \in DOMAIN collections
    /\ AuthorOf(c.asset_id) \in c.auth
    /\ c.amount > 0

\* the host lets the mint's inline transfer run, the recipient exists and
\* the build wraps on signed overflow
FavourableMint(c) ==
    /\ c.codePerm
    /\ c.to \in Accounts
    /\ c.ovf = "wrap"

----------------------------------------------------------------------------
(* C1: conservation -- in every reachable state, for every asset, the      *)
(* balances of all owners for that asset sum to the asset's supply.        *)
C1_Conservation ==
    \A id \in DOMAIN assets : TotalHeld(balances, id) = assets[id].supply

(* C2: in every reachable state every asset has 0 <= supply <= max_supply. *)
C2_SupplyWithinMax ==
    \A id \in DOMAIN assets :
        0 <= assets[id].supply /\ assets[id].supply <= assets[id].max_supply

\* a mint has just taken an asset's supply to exactly its max_supply
C2_Witness ==
    /\ receipt.op = "mint" /\ receipt.res = "ok"
    /\ assets[receipt.asset_id].supply = assets[receipt.asset_id].max_supply
    /\ assets[receipt.asset_id].supply > receipt.amount

(* C3: in every reachable state every stored balance row has quantity > 0  *)
(* (a row exists iff the owner's quantity is positive).                    *)
C3_RowsPositive ==
    \A o \in Names : \A id \in DOMAIN balances[o] :
        balances[o][id].balance > 0

(* C4: a successful mint(to, asset_id, amount) raises the asset's supply   *)
(* by amount and the balance of `to` for that asset by amount, and leaves  *)
(* every other balance and every other asset as it was.  Stated for assets *)
(* whose max_supply fits the signed range, where no addition can overflow. *)
C4_MintEffect ==
    [][ (Pushed("mint") /\ receipt'.res = "ok"
           /\ assets[receipt'.asset_id].max_supply <= SMax)
        => LET c == receipt' IN
           /\ assets' = [assets EXCEPT
                           ![c.asset_id].supply = @ + c.amount]
           /\ \A o \in Names : \A id \in AssetIds :
                 Held(balances', o, id) =
                    Held(balances, o, id)
                    + (IF o = c.to /\ id = c.asset_id THEN c.amount ELSE 0)
      ]_vars

(* C5: a mint that meets every precondition of mint (memo size, asset and  *)
(* collection exist, author's authority, amount > 0, supply + amount <=    *)
(* max_supply) succeeds for any recipient, whatever the author holds.      *)
(* Stated in the most favourable environment (FavourableMint).             *)
C5_MintSucceeds ==
    [][ (Pushed("mint") /\ MintPreconditions(receipt')
           /\ FavourableMint(receipt')
           /\ assets[receipt'.asset_id].supply + receipt'.amount
                 <= assets[receipt'.asset_id].max_supply)
        => receipt'.res = "ok" ]_vars

BalanceErrors == {"no balance object found", "overdrawn balance"}

\* the preconditions of transfer other than the sender's balance
TransferPreconditions(c) ==
    /\ c.from # c.to
    /\ c.from \in c.auth
    /\ c.to \in Accounts
    /\ c.asset_id \in DOMAIN assets
    /\ c.amount > 0
    /\ c.memo <= MaxMemoSize

(* C6: a successful transfer(from, to, asset_id, amount) lowers from's     *)
(* balance by amount (row deleted iff it reaches 0), raises to's balance   *)
(* by amount (row created if absent) and leaves collections, assets and    *)
(* every other balance unchanged.  Stated of the handler on every state    *)
(* in which an action can be pushed.                                       *)
C6_TransferEffect ==
    receipt.op = "idle" =>
    \A auth \in Auths, from \in Accounts, to \in Accounts,
       asset_id \in DOMAIN assets, amount \in Amounts,
       ovf \in OverflowOutcomes :
       LET r == transfer(State, auth, from, to, asset_id, amount,
                         MaxMemoSize, ovf) IN
       r.ok =>
          /\ r.st.collections = collections
          /\ r.st.assets = assets
          /\ (asset_id \in DOMAIN r.st.balances[from])
                <=> (Held(balances, from, asset_id) # amount)
          /\ asset_id \in DOMAIN r.st.balances[to]
          /\ \A o \in Names : \A id \in AssetIds :
                Held(r.st.balances, o, id) =
                   Held(balances, o, id)
                   - (IF o = from /\ id = asset_id THEN amount ELSE 0)
                   + (IF o = to /\ id = asset_id THEN amount ELSE 0)

(* C7: a transfer whose sender holds less than amount of the asset (0      *)
(* when there is no row) fails and changes no balance; when the other      *)
(* preconditions are met it fails on the balance check.                    *)
C7_TransferNeedsBalance ==
    [][ (Pushed("transfer")
           /\ Held(balances, receipt'.from, receipt'.asset_id)
                 < receipt'.amount)
        => /\ receipt'.res # "ok"
           /\ balances' = balances
           /\ TransferPreconditions(receipt')
                 => receipt'.res \in BalanceErrors
      ]_vars

\* a transfer of more than the sender's positive holding was refused
C7_Witness ==
    /\ receipt.op = "transfer" /\ receipt.res = "overdrawn balance"
    /\ Held(balances, receipt.from, receipt.asset_id) > 0
    /\ Held(balances, receipt.from, receipt.asset_id) < receipt.amount

(* C8: a successful burn lowers the asset's supply and the author's        *)
(* balance by amount (row deleted at 0) and changes no other balance; a    *)
(* burn of at most the supply but more than the author holds fails on the  *)
(* balance check and leaves supply and balances unchanged.                 *)
C8_BurnDebitsAuthor ==
    [][ Pushed("burn") =>
        LET c == receipt' IN
        /\ c.res = "ok" =>
             LET author == AuthorOf(c.asset_id) IN
             /\ assets' = [assets EXCEPT
                             ![c.asset_id].supply = @ - c.amount]
             /\ (c.asset_id \in DOMAIN balances'[author])
                   <=> (Held(balances, author, c.asset_id) # c.amount)
             /\ \A o \in Names : \A id \in AssetIds :
                   Held(balances', o, id) =
                      Held(balances, o, id)
                      - (IF o = author /\ id = c.asset_id
                         THEN c.amount ELSE 0)
        /\ ( /\ c.memo <= MaxMemoSize
             /\ c.amount > 0
             /\ c.asset_id \in DOMAIN assets
             /\ assets[c.asset_id].supply >= c.amount
             /\ AuthorOf(c.asset_id) \in c.auth
             /\ Held(balances, AuthorOf(c.asset_id), c.asset_id) < c.amount )
           => /\ c.res \in BalanceErrors
              /\ UNCHANGED <<assets, balances>>
      ]_vars

\* a burn within the supply was refused because the author holds only a
\* part of it
C8_Witness ==
    /\ receipt.op = "burn" /\ receipt.res = "overdrawn balance"
    /\ assets[receipt.asset_id].supply >= receipt.amount
    /\ Held(balances, AuthorOf(receipt.asset_id), receipt.asset_id) > 0

(* C9: a failed action leaves collections, assets, balances and the log    *)
(* as they were, also when it fails in the initial mint of createasset;    *)
(* and the id a successful createasset issues is the next key of the       *)
(* assets table, so the id of a failed createasset goes to the next        *)
(* successful one.                                                         *)
C9_FailureChangesNothing ==
    [][ /\ (receipt.op = "idle" /\ receipt'.op # "idle"
              /\ receipt'.res # "ok")
           => UNCHANGED <<collections, assets, balances, log>>
        /\ (Pushed("createasset") /\ receipt'.res = "ok")
           => DOMAIN assets' =
                 DOMAIN assets \cup {Cardinality(DOMAIN assets) + 1}
      ]_vars

\* a createasset failed in its initial mint: the supply asked for exceeds
\* max_supply
C9_Witness ==
    /\ receipt.op = "createasset"
    /\ receipt.res = "amount exceeds available supply"
    /\ receipt.supply > receipt.max_supply

(* C10: with the other preconditions of mint met, mint succeeds if and     *)
(* only if supply + amount <= max_supply, and a mint beyond max_supply     *)
(* fails on the supply check and leaves supply and balances unchanged.     *)
(* Stated in the most favourable environment (FavourableMint).             *)
C10_MintIffWithinMax ==
    [][ (Pushed("mint") /\ MintPreconditions(receipt')
           /\ FavourableMint(receipt'))
        => LET c == receipt'
               within == assets[c.asset_id].supply + c.amount
                            <= assets[c.asset_id].max_supply IN
           /\ (c.res = "ok") <=> within
           /\ ~within => /\ c.res = "amount exceeds available supply"
                         /\ UNCHANGED <<assets, balances>>
      ]_vars

----------------------------------------------------------------------------
(* Identifiers *)

\* the id a create step has issued: the one key the table has gained
Issued(t, t2) == CHOOSE id \in DOMAIN t2 : id \notin DOMAIN t

\* the last event a step has appended
LastEvent(l) == l[Len(l)]

(* C11: collection ids and asset ids are issued as 1, 2, 3, ... without    *)
(* gaps or repeats and never 0: the first successful create of a kind      *)
(* issues 1 and each later one issues one more than the ids issued so far; *)
(* a failed create issues nothing; a create of one kind leaves the ids of  *)
(* the other kind alone.                                                   *)
C11_IdsSequential ==
    [][ /\ DOMAIN collections' = 1..Cardinality(DOMAIN collections')
        /\ DOMAIN assets' = 1..Cardinality(DOMAIN assets')
        /\ (Pushed("createcol") /\ receipt'.res = "ok")
             => /\ DOMAIN collections' =
                     DOMAIN collections \cup {Cardinality(DOMAIN collections) + 1}
                /\ Issued(collections, collections') \notin DOMAIN collections
                /\ \A k \in DOMAIN collections :
                       k < Issued(collections, collections')
                /\ collections'[Issued(collections, collections')].collection_id
                     = Issued(collections, collections')
                /\ LastEvent(log').collection_id
                     = Issued(collections, collections')
                /\ DOMAIN assets' = DOMAIN assets
        /\ (Pushed("createasset") /\ receipt'.res = "ok")
             => /\ DOMAIN assets' =
                     DOMAIN assets \cup {Cardinality(DOMAIN assets) + 1}
                /\ Issued(assets, assets') \notin DOMAIN assets
                /\ \A k \in DOMAIN assets : k < Issued(assets, assets')
                /\ assets'[Issued(assets, assets')].asset_id
                     = Issued(assets, assets')
                /\ log'[Len(log) + 1].asset_id = Issued(assets, assets')
                /\ DOMAIN collections' = DOMAIN collections
        /\ receipt'.res # "ok"
             => /\ DOMAIN collections' = DOMAIN collections
                /\ DOMAIN assets' = DOMAIN assets
      ]_vars

\* a second collection has just been issued id 2 while the only asset
\* holds id 1
C11_Witness ==
    /\ receipt.op = "createcol" /\ receipt.res = "ok"
    /\ DOMAIN collections = {1, 2}
    /\ DOMAIN assets = {1}

----------------------------------------------------------------------------
(* Authorization *)

\* the account whose authorization the handler of call c requires
Authorizer(c) ==
    CASE c.op = "createcol" -> Self
      [] c.op = "createasset" -> collections[c.collection_id].author
      [] c.op \in {"mint", "burn"} -> AuthorOf(c.asset_id)
      [] c.op = "transfer" -> c.from

\* the rows the handler reads the authorizer from exist
AuthorizerKnown(c) ==
    CASE c.op = "createcol" -> TRUE
      [] c.op = "createasset" -> c.collection_id \in DOMAIN collections
      [] c.op \in {"mint", "burn"} ->
            /\ c.asset_id \in DOMAIN assets
            /\ assets[c.asset_id].collection_id \in DOMAIN collections
      [] c.op = "transfer" -> TRUE

\* the checks the handler makes before its require_auth pass
ChecksBeforeAuth(c) ==
    CASE c.op = "createcol" -> TRUE
      [] c.op = "createasset" ->
            c.max_supply > 0 /\ c.data <= MaxDataSize
      [] c.op = "mint" -> c.memo <= MaxMemoSize
      [] c.op = "burn" ->
            /\ c.memo <= MaxMemoSize
            /\ c.amount > 0
            /\ assets[c.asset_id].supply >= c.amount
      [] c.op = "transfer" -> c.from # c.to

\* an action of any kind is pushed
PushedAny == receipt.op = "idle" /\ receipt'.op # "idle"

(* C12: every mutation is gated by authorization -- createcol by the       *)
(* contract account, createasset, mint and burn by the author of the       *)
(* asset's collection, transfer by from.  A call without the required      *)
(* authorization fails and changes nothing, with "missing required         *)
(* authority" when the checks made before require_auth pass; every call    *)
(* that succeeds carries it.  No call lowers the balance of an account     *)
(* whose authorization it does not carry.                                  *)
C12_AuthorizationGates ==
    [][ PushedAny =>
        LET c == receipt' IN
        /\ (AuthorizerKnown(c) /\ Authorizer(c) \notin c.auth)
             => /\ c.res # "ok"
                /\ UNCHANGED <<collections, assets, balances, log>>
                /\ ChecksBeforeAuth(c) => c.res = "missing required authority"
        /\ c.res = "ok" => AuthorizerKnown(c) /\ Authorizer(c) \in c.auth
        /\ \A o \in Names, id \in AssetIds :
              Held(balances', o, id) < Held(balances, o, id) => o \in c.auth
      ]_vars

(* C13: a transfer whose from and to are the same account always fails     *)
(* with "cannot transfer to self" and changes no state, whatever the       *)
(* balance, the amount, the memo, the signers and whether the asset or the *)
(* account exists.                                                         *)
C13_SelfTransferFails ==
    [][ (Pushed("transfer") /\ receipt'.from = receipt'.to)
        => /\ receipt'.res = "cannot transfer to self"
           /\ UNCHANGED <<collections, assets, balances, log>>
      ]_vars

\* a holder has signed a transfer to themselves of an amount they hold,
\* valid in every other respect, and it was refused as a self-transfer
C13_Witness ==
    /\ receipt.op = "transfer"
    /\ receipt.from = receipt.to
    /\ receipt.res = "cannot transfer to self"
    /\ receipt.from \in receipt.auth
    /\ receipt.amount > 0
    /\ receipt.memo <= MaxMemoSize
    /\ Held(balances, receipt.from, receipt.asset_id) >= receipt.amount

----------------------------------------------------------------------------
(* Events *)

(* C14: every successful mint(to, asset_id, amount, memo) appends exactly  *)
(* one transferlog event, with from the null name, to the recipient `to`,  *)
(* the amount minted, from_balance 0 and to_balance the balance `to` holds *)
(* after the mint -- whether or not `to` is the collection author.         *)
C14_MintEvent ==
    [][ (Pushed("mint") /\ receipt'.res = "ok")
        => LET c == receipt' IN
           /\ Len(log') = Len(log) + 1
           /\ LastEvent(log').type = "transferlog"
           /\ LastEvent(log').from = NullName
           /\ LastEvent(log').to = c.to
           /\ LastEvent(log').asset_id = c.asset_id
           /\ LastEvent(log').amount = c.amount
           /\ LastEvent(log').from_balance = 0
           /\ LastEvent(log').to_balance = Held(balances', c.to, c.asset_id)
      ]_vars

(* C15: every successful transfer appends exactly one transferlog event,   *)
(* whose from_balance and to_balance are the quantities from and to hold   *)
(* right after it (0 for a row that was erased); every successful burn     *)
(* appends exactly one, with to the null name, to_balance 0 and            *)
(* from_balance the author's remaining balance; no step changes or removes *)
(* an event already in the log.                                            *)
C15_TransferBurnEvents ==
    [][ /\ Len(log') >= Len(log)
        /\ SubSeq(log', 1, Len(log)) = log
        /\ (Pushed("transfer") /\ receipt'.res = "ok")
             => LET c == receipt' IN
                /\ Len(log') = Len(log) + 1
                /\ LastEvent(log').type = "transferlog"
                /\ LastEvent(log').from = c.from
                /\ LastEvent(log').to = c.to
                /\ LastEvent(log').asset_id = c.asset_id
                /\ LastEvent(log').amount = c.amount
                /\ LastEvent(log').from_balance
                     = Held(balances', c.from, c.asset_id)
                /\ LastEvent(log').to_balance
                     = Held(balances', c.to, c.asset_id)
        /\ (Pushed("burn") /\ receipt'.res = "ok")
             => LET c == receipt' IN
                /\ Len(log') = Len(log) + 1
                /\ LastEvent(log').type = "transferlog"
                /\ LastEvent(log').from = AuthorOf(c.asset_id)
                /\ LastEvent(log').to = NullName
                /\ LastEvent(log').asset_id = c.asset_id
                /\ LastEvent(log').amount = c.amount
                /\ LastEvent(log').to_balance = 0
                /\ LastEvent(log').from_balance
                     = Held(balances', AuthorOf(c.asset_id), c.asset_id)
      ]_vars

\* a transfer has just moved part of a balance: its event reports what the
\* sender keeps and a different quantity for the recipient
C15_Witness ==
    /\ receipt.op = "transfer" /\ receipt.res = "ok"
    /\ LastEvent(log).from = receipt.from
    /\ LastEvent(log).from_balance > 0
    /\ LastEvent(log).from_balance # LastEvent(log).to_balance
    /\ LastEvent(log).from_balance
         = Held(balances, receipt.from, receipt.asset_id)

----------------------------------------------------------------------------
(* Registry *)

\* an asset row without its supply
Fixed(ast) == [asset_id |-> ast.asset_id, collection_id |-> ast.collection_id,
               max_supply |-> ast.max_supply, data |-> ast.data]

(* C16: a collection, once created, keeps its id, author, royalty and data *)
(* and is never deleted; an asset keeps its id, collection_id, max_supply  *)
(* and data and is never deleted; an asset's supply is changed only by     *)
(* mint (the initial mint of createasset included, for the asset it        *)
(* creates) and by burn, for the asset they name; createcol and transfer   *)
(* leave every asset row as it was.                                        *)
C16_RegistryImmutable ==
    [][ /\ \A id \in DOMAIN collections :
              id \in DOMAIN collections' /\ collections'[id] = collections[id]
        /\ \A id \in DOMAIN assets :
              /\ id \in DOMAIN assets'
              /\ Fixed(assets'[id]) = Fixed(assets[id])
              /\ assets'[id].supply # assets[id].supply
                   => /\ receipt'.op \in {"mint", "burn"}
                      /\ receipt'.asset_id = id
        /\ receipt'.op \in {"createcol", "transfer", "idle"}
             => assets' = assets
      ]_vars

\* a transfer has just succeeded between holders of an asset with units
\* in circulation while a second asset is registered
C16_Witness ==
    /\ receipt.op = "transfer" /\ receipt.res = "ok"
    /\ DOMAIN assets = {1, 2}
    /\ assets[receipt.asset_id].supply > 0

(* C17: in every reachable state every asset's collection_id is an         *)
(* existing collection, every balance row's asset_id is an existing asset, *)
(* every asset has max_supply > 0, every collection has royalty <= 1000    *)
(* and an author that is an existing account.                              *)
C17_ReferentialIntegrity ==
    /\ \A id \in DOMAIN assets :
          /\ assets[id].collection_id \in DOMAIN collections
          /\ assets[id].max_supply > 0
    /\ \A o \in Names : \A id \in DOMAIN balances[o] :
          /\ id \in DOMAIN assets
          /\ balances[o][id].asset_id = id
    /\ \A id \in DOMAIN collections :
          /\ collections[id].royalty >= 0
          /\ collections[id].royalty <= MaxRoyalty
          /\ collections[id].author \in Accounts

\* two collections with different authors, an asset in the second one and
\* a balance of that asset held by an account other than its author
C17_Witness ==
    /\ DOMAIN collections = {1, 2}
    /\ collections[1].author # collections[2].author
    /\ collections[2].royalty = MaxRoyalty
    /\ \E id \in DOMAIN assets :
          /\ assets[id].collection_id = 2
          /\ \E o \in Names \ {collections[2].author} :
                id \in DOMAIN balances[o]

----------------------------------------------------------------------------
(* Storage *)

(* C18: when a successful transfer has to create to's balance row, the     *)
(* row's payer is `to` if `to` also signed the transfer and `from`         *)
(* otherwise; when to's row already exists the credit leaves its payer as  *)
(* it was.                                                                 *)
C18_TransferPayer ==
    [][ (Pushed("transfer") /\ receipt'.res = "ok")
        => LET c == receipt' IN
           /\ c.asset_id \in DOMAIN balances'[c.to]
           /\ IF c.asset_id \notin DOMAIN balances[c.to]
              THEN balances'[c.to][c.asset_id].payer
                     = (IF c.to \in c.auth THEN c.to ELSE c.from)
              ELSE balances'[c.to][c.asset_id].payer
                     = balances[c.to][c.asset_id].payer
      ]_vars

\* a transfer that `to` co-signed has just credited a row that `to` already
\* had: the row is still paid for by the account that paid at its creation
C18_Witness ==
    /\ receipt.op = "transfer" /\ receipt.res = "ok"
    /\ receipt.to \in receipt.auth
    /\ balances[receipt.to][receipt.asset_id].payer = receipt.from
    /\ balances[receipt.to][receipt.asset_id].balance > receipt.amount

----------------------------------------------------------------------------
(* Machine ranges *)

(* C19: the supply-cap check of mint is sound over the whole range of its  *)
(* integer types -- a mint whose other preconditions hold and for which    *)
(* supply + amount, as a mathematical integer, exceeds max_supply fails    *)
(* with "amount exceeds available supply" and changes nothing, also when   *)
(* the machine sum wraps; no successful mint lowers the stored supply.     *)
C19_CapCheckSound ==
    [][ (Pushed("mint") /\ MintPreconditions(receipt'))
        => LET c == receipt' IN
           /\ assets[c.asset_id].supply + c.amount
                 > assets[c.asset_id].max_supply
                => /\ c.res = "amount exceeds available supply"
                   /\ UNCHANGED <<collections, assets, balances, log>>
           /\ c.res = "ok"
                => assets'[c.asset_id].supply > assets[c.asset_id].supply
      ]_vars

(* C20: for an asset whose max_supply exceeds the largest signed value, no *)
(* successful mint or transfer makes a stored balance wrap -- after a      *)
(* successful mint to the author the author holds the previous quantity    *)
(* plus the amount, after a successful transfer from holds the previous    *)
(* quantity minus the amount and to the previous quantity plus the amount, *)
(* and the rows written are positive.                                      *)
C20_BalancesNeverWrap ==
    [][ /\ (Pushed("mint") /\ receipt'.res = "ok"
              /\ receipt'.to = AuthorOf(receipt'.asset_id)
              /\ assets[receipt'.asset_id].max_supply > SMax)
             => LET c == receipt' IN
                /\ Held(balances', c.to, c.asset_id)
                     = Held(balances, c.to, c.asset_id) + c.amount
                /\ Held(balances', c.to, c.asset_id) > 0
        /\ (Pushed("transfer") /\ receipt'.res = "ok"
              /\ assets[receipt'.asset_id].max_supply > SMax)
             => LET c == receipt' IN
                /\ Held(balances', c.from, c.asset_id)
                     = Held(balances, c.from, c.asset_id) - c.amount
                /\ Held(balances', c.to, c.asset_id)
                     = Held(balances, c.to, c.asset_id) + c.amount
                /\ Held(balances', c.to, c.asset_id) > 0
      ]_vars

====
